---- MODULE Spec2Model ----
(***************************************************************************)
(* Model of actix-http/src/ws/dispatcher.rs: FramedDispatcher, the future  *)
(* that reads frames from a Framed transport, hands them to a Service and  *)
(* writes the responses of the spawned request tasks back.                 *)
(*                                                                         *)
(* One poll of the future is a sequence of steps tracked by pc:            *)
(*   idle  -> top            the executor polls the future                 *)
(*   top                     the match on self.state in poll()             *)
(*   read                    one iteration of the loop of poll_read        *)
(*   write                   one iteration of the inner while of poll_write*)
(*   flush                   the flush part of the outer loop of poll_write*)
(*   done                    poll returned Poll::Ready                     *)
(* The environment (transport, service, codec, request tasks) supplies the *)
(* outcomes of poll_ready, next_item, write (encode) and flush.            *)
(***************************************************************************)
EXTENDS Integers, Sequences, FiniteSets, TLC

\* Longest stream of frames the transport delivers.
MaxItems == 3

\* Number of responses after which Framed::is_write_buf_full() holds.
WriteBufFull == 2

VARIABLES
    input,      \* the transport's stream: "ok" | "bad" frames, optional final "eof"
    arrived,    \* how many events of input the transport has received so far
    readPos,    \* how many events next_item has handed out
    state,      \* State discriminant: self.state
    err,        \* payload of State::Error / State::FramedError
    running,    \* ids of spawned request tasks that have not completed
    rx,         \* the mpsc result channel
    wbuf,       \* Framed's write buffer (responses encoded, not yet written)
    out,        \* responses written to the transport's outbound side
    pc,         \* position inside poll()
    result,     \* what poll() resolved with
    calls,      \* history: ids handed to service.call, in order
    completed,  \* history: every message pushed onto the channel, in order
    pulled,     \* history: number of messages taken from the channel
    written,    \* history: ids encoded into the write buffer, in order
    readySeen,  \* history: outcomes poll_ready has returned so far
    firstReady, \* history: outcome of the first poll_ready
    exitEvent,  \* history: the event that moved state out of Processing
    finalFlush, \* history: outcome of the last flush made after leaving Processing
    wbufAtExit, \* history: write buffer at the moment state left Processing
    trail,      \* history: the stages the current poll has run
    lastReady,  \* history: outcome of the latest poll_ready
    failures    \* history: encode and flush failures met by poll_write

vars == <<input, arrived, readPos, state, err, running, rx, wbuf, out, pc,
          result, calls, completed, pulled, written, readySeen, firstReady,
          exitEvent, finalFlush, wbufAtExit, trail, lastReady, failures>>

histVars == <<calls, completed, pulled, written, readySeen, firstReady,
              exitEvent, finalFlush, wbufAtExit, trail, lastReady, failures>>

----------------------------------------------------------------------------
\* Data

\* FramedDispatcherError<E, U, I>: kind and the cause it carries.
DispatcherError(kind, src, id) == [kind |-> kind, src |-> src, id |-> id]

NoErr == DispatcherError("None", "none", 0)

\* Result<InnerMessage<I>, S::Error> as carried by the channel.
InnerMessage(tag, id) == [tag |-> tag, id |-> id]

NoResult == [tag |-> "None", err |-> NoErr]

NoExit == [state |-> "Processing", err |-> NoErr]

Frames == {"ok", "bad"}

SeqsUpTo(S, n) == UNION {[1..k -> S] : k \in 0..n}

\* Streams the transport can deliver: frames, then possibly a clean end.
Streams == {s : s \in SeqsUpTo(Frames, MaxItems)}
           \cup {Append(s, "eof") : s \in SeqsUpTo(Frames, MaxItems)}

IsPrefix(s, t) == Len(s) <= Len(t) /\ SubSeq(t, 1, Len(s)) = s

Ids(ms) == [k \in 1..Len(ms) |-> ms[k].id]

Range(s) == {s[k] : k \in 1..Len(s)}

----------------------------------------------------------------------------
\* FramedDispatcher::new

Init ==
    /\ input \in Streams
    /\ arrived = 0
    /\ readPos = 0
    /\ state = "Processing"
    /\ err = NoErr
    /\ running = {}
    /\ rx = <<>>
    /\ wbuf = <<>>
    /\ out = <<>>
    /\ pc = "idle"
    /\ result = NoResult
    /\ calls = <<>>
    /\ completed = <<>>
    /\ pulled = 0
    /\ written = <<>>
    /\ readySeen = {}
    /\ firstReady = "none"
    /\ exitEvent = NoExit
    /\ finalFlush = "none"
    /\ wbufAtExit = <<>>
    /\ trail = <<>>
    /\ lastReady = "none"
    /\ failures = <<>>

----------------------------------------------------------------------------
\* Environment

\* The transport receives the next event of the stream.
Arrive ==
    /\ arrived < Len(input)
    /\ arrived' = arrived + 1
    /\ UNCHANGED <<input, readPos, state, err, running, rx, wbuf, out, pc,
                   result>>
    /\ UNCHANGED histVars

\* The message a finished request task sends: item.map(InnerMessage::Item).
TaskMessage(id, ok) == InnerMessage(IF ok THEN "Item" ELSE "Err", id)

\* Mutant: the channel hands out the newest message first.
ChannelSendFront(ch, m) == <<m>> \o ch

\* Where a task's message lands in the channel.
ChannelSend(ch, m) == Append(ch, m)

\* A spawned request task finishes and sends its outcome. The tasks run on
\* the dispatcher's own single-threaded executor, hence between polls; once
\* the dispatcher has resolved the send result is dropped (let _ =).
TaskComplete ==
    /\ pc \in {"idle", "done"}
    /\ \E id \in running : \E ok \in BOOLEAN :
        /\ running' = running \ {id}
        /\ IF pc = "idle"
              THEN /\ rx' = ChannelSend(rx, TaskMessage(id, ok))
                   /\ completed' = Append(completed, TaskMessage(id, ok))
              ELSE UNCHANGED <<rx, completed>>
    /\ UNCHANGED <<input, arrived, readPos, state, err, wbuf, out, pc,
                   result>>
    /\ UNCHANGED <<calls, pulled, written, readySeen, firstReady, exitEvent,
                   finalFlush, wbufAtExit, trail, lastReady, failures>>

----------------------------------------------------------------------------
\* Capabilities the dispatcher calls

\* Outcomes of Service::poll_ready.
ReadyOutcomes == {"ok", "pending", "err"}

\* Mutant: a pending readiness check is treated like a ready one.
ReadyAdmitsPending(r) == r # "err"

\* Mutant: a failed readiness check is treated like a ready one.
ReadyAdmitsErr(r) == r # "pending"

\* poll_read goes on to next_item only in the arm Poll::Ready(Ok(_)).
ReadyAdmits(r) == r = "ok"

\* Framed::next_item: the next event the transport holds, or Pending.
NextItem == IF readPos < arrived THEN input[readPos + 1] ELSE "pending"

\* Mutant: the buffer counts as full one response too late.
IsWriteBufFullLate(buf) == Len(buf) > WriteBufFull

\* Framed::is_write_buf_full / is_write_buf_empty.
IsWriteBufFull(buf) == Len(buf) >= WriteBufFull

IsWriteBufEmpty(buf) == buf = <<>>

\* Outcomes of Framed::flush on buffer buf: Ready(Ok) after writing all of
\* it, or Pending / Ready(Err) after writing the first n responses.
FlushOutcomes(buf) ==
    {[res |-> "ok", n |-> Len(buf)]}
    \cup {[res |-> r, n |-> k] : r \in {"pending", "err"}, k \in 0..Len(buf)}

\* The buffer and the outbound side after a flush with outcome f.
FlushBuf(buf, f) == SubSeq(buf, f.n + 1, Len(buf))

FlushOut(o, buf, f) == o \o SubSeq(buf, 1, f.n)

\* The message poll_next hands out, and the channel it leaves.
ChannelHead(ch) == Head(ch)

\* Mutant: the message taken from the channel stays in it.
ChannelRestPeek(ch) == ch

ChannelRest(ch) == Tail(ch)

\* State::take_error / State::take_framed_error: mem::replace(self,
\* Processing) and the payload, or a panic on any other variant.
TakeError(st, e) ==
    IF st = "Error" THEN [tag |-> "Err", err |-> e]
                    ELSE [tag |-> "Panic", err |-> NoErr]

TakeFramedError(st, e) ==
    IF st = "FramedError" THEN [tag |-> "Err", err |-> e]
                          ELSE [tag |-> "Panic", err |-> NoErr]

OkResult == [tag |-> "Ok", err |-> NoErr]

----------------------------------------------------------------------------
\* Assignments shared by the steps

\* *this.state = st(e), as made by poll_read and poll_write.
SetState(st, e) ==
    /\ state' = st
    /\ err' = e
    /\ exitEvent' = [state |-> st, err |-> e]
    /\ wbufAtExit' = wbuf
    /\ finalFlush' = "none"

KeepState ==
    UNCHANGED <<state, err, exitEvent, wbufAtExit, finalFlush>>

\* poll() returns Poll::Ready(res), leaving st in the state slot.
Resolve(res, st) ==
    /\ result' = res
    /\ state' = st
    /\ err' = NoErr
    /\ pc' = "done"

\* self.framed.flush(cx) with outcome f.
DoFlush(f) ==
    /\ wbuf' = FlushBuf(wbuf, f)
    /\ out' = FlushOut(out, wbuf, f)

----------------------------------------------------------------------------
\* FramedDispatcher::poll

\* The executor polls the future (it is not polled again once resolved).
PollEnter ==
    /\ pc = "idle"
    /\ pc' = "top"
    /\ trail' = <<>>
    /\ UNCHANGED <<input, arrived, readPos, state, err, running, rx, wbuf,
                   out, result>>
    /\ UNCHANGED <<calls, completed, pulled, written, readySeen, firstReady,
                   exitEvent, finalFlush, wbufAtExit, lastReady, failures>>

\* Mutant: a failure of the final flush replaces the stored error.
TopErrorFlushErr(f) ==
    IF ~IsWriteBufEmpty(wbuf)
    THEN /\ DoFlush(f)
         /\ finalFlush' = f.res
         /\ IF f.res = "pending"
               THEN /\ pc' = "idle"
                    /\ UNCHANGED <<state, err, result>>
               ELSE IF f.res = "err"
               THEN Resolve([tag |-> "Err",
                             err |-> DispatcherError("Encoder", "flush", 0)],
                            "Processing")
               ELSE Resolve(TakeError(state, err), "Processing")
    ELSE /\ Resolve(TakeError(state, err), "Processing")
         /\ UNCHANGED <<wbuf, out, finalFlush>>

\* Mutant: Error resolves at once, without the final flush.
TopErrorNoFlush(f) ==
    /\ Resolve(TakeError(state, err), "Processing")
    /\ UNCHANGED <<wbuf, out, finalFlush>>

\* State::Error(_): the final flush, then Err(take_error()).
TopError(f) ==
    IF ~IsWriteBufEmpty(wbuf)
    THEN /\ DoFlush(f)
         /\ finalFlush' = f.res
         /\ IF f.res = "pending"
               THEN /\ pc' = "idle"
                    /\ UNCHANGED <<state, err, result>>
               ELSE Resolve(TakeError(state, err), "Processing")
    ELSE /\ Resolve(TakeError(state, err), "Processing")
         /\ UNCHANGED <<wbuf, out, finalFlush>>

\* State::FlushAndStop: flush, and Ok(()) whatever the flush returned.
TopFlushAndStop(f) ==
    IF ~IsWriteBufEmpty(wbuf)
    THEN /\ DoFlush(f)
         /\ finalFlush' = f.res
         /\ IF f.res = "pending"
               THEN /\ pc' = "idle"
                    /\ UNCHANGED <<state, err, result>>
               ELSE Resolve(OkResult, state)
    ELSE /\ Resolve(OkResult, state)
         /\ UNCHANGED <<wbuf, out, finalFlush>>

\* Mutant: FramedError flushes the write buffer before resolving, as Error does.
TopFramedErrorFlushes ==
    /\ Resolve(TakeFramedError(state, err), "Processing")
    /\ wbuf' = <<>>
    /\ out' = out \o wbuf
    /\ finalFlush' = "ok"

\* Mutant: the FramedError arm calls take_error.
TopFramedErrorTakesError ==
    /\ Resolve(TakeError(state, err), "Processing")
    /\ UNCHANGED <<wbuf, out, finalFlush>>

\* State::FramedError(_): Err(take_framed_error()), no flush.
TopFramedError ==
    /\ Resolve(TakeFramedError(state, err), "Processing")
    /\ UNCHANGED <<wbuf, out, finalFlush>>

\* State::Stopping: Ok(()).
TopStopping ==
    /\ Resolve(OkResult, state)
    /\ UNCHANGED <<wbuf, out, finalFlush>>

\* State::Processing: poll_read(cx) || poll_write(cx) starts with poll_read.
TopProcessing ==
    /\ pc' = "read"
    /\ UNCHANGED <<state, err, result, wbuf, out, finalFlush>>

\* One pass through `return match this.state { ... }`.
PollTop ==
    /\ pc = "top"
    /\ \E f \in FlushOutcomes(wbuf) :
        CASE state = "Processing" -> TopProcessing
          [] state = "Error" -> TopError(f)
          [] state = "FlushAndStop" -> TopFlushAndStop(f)
          [] state = "FramedError" -> TopFramedError
          [] state = "Stopping" -> TopStopping
    /\ trail' = Append(trail, IF state = "Processing" THEN "proc" ELSE "term")
    /\ UNCHANGED <<input, arrived, readPos, running, rx>>
    /\ UNCHANGED <<calls, completed, pulled, written, readySeen, firstReady,
                   exitEvent, wbufAtExit, lastReady, failures>>

----------------------------------------------------------------------------
\* FramedDispatcher::poll_read

\* Mutant: poll_write runs whatever poll_read returned (| instead of ||).
ReadReturnNoShortCircuit(progress) ==
    /\ pc' = "write"
    /\ trail' = Append(trail, IF progress THEN "read:T" ELSE "read:F")

\* poll_read returns: true re-enters the loop of poll (continue), false
\* lets poll go on to poll_write.
ReadReturn(progress) ==
    /\ pc' = IF progress THEN "top" ELSE "write"
    /\ trail' = Append(trail, IF progress THEN "read:T" ELSE "read:F")

\* Mutant: admitting an item counts as progress.
ReadAdmitReportsProgress ==
    /\ readPos' = readPos + 1
    /\ calls' = Append(calls, readPos + 1)
    /\ running' = running \cup {readPos + 1}
    /\ KeepState
    /\ ReadReturn(TRUE)

\* Poll::Ready(Some(Ok(el))): service.call(el) and the task spawned for it.
ReadAdmit ==
    /\ readPos' = readPos + 1
    /\ calls' = Append(calls, readPos + 1)
    /\ running' = running \cup {readPos + 1}
    /\ pc' = "read"
    /\ KeepState
    /\ UNCHANGED trail

\* Mutant: the item is handed to call before its decode result is looked at.
ReadItemAdmitsBad ==
    CASE NextItem \in {"ok", "bad"} -> ReadAdmit
      [] NextItem = "eof" ->
            /\ readPos' = readPos + 1
            /\ SetState("Stopping", NoErr)
            /\ ReadReturn(TRUE)
            /\ UNCHANGED <<calls, running>>
      [] NextItem = "pending" ->
            /\ ReadReturn(FALSE)
            /\ KeepState
            /\ UNCHANGED <<readPos, calls, running>>

\* Mutant: the end of the stream asks for flush-and-stop.
ReadItemEofFlushes ==
    CASE NextItem = "ok" -> ReadAdmit
      [] NextItem = "bad" ->
            /\ readPos' = readPos + 1
            /\ SetState("FramedError",
                        DispatcherError("Decoder", "decode", readPos + 1))
            /\ ReadReturn(TRUE)
            /\ UNCHANGED <<calls, running>>
      [] NextItem = "eof" ->
            /\ readPos' = readPos + 1
            /\ SetState("FlushAndStop", NoErr)
            /\ ReadReturn(TRUE)
            /\ UNCHANGED <<calls, running>>
      [] NextItem = "pending" ->
            /\ ReadReturn(FALSE)
            /\ KeepState
            /\ UNCHANGED <<readPos, calls, running>>

\* The arm Poll::Ready(Ok(_)) of poll_ready: next_item and what follows.
ReadItem ==
    CASE NextItem = "ok" -> ReadAdmit
      [] NextItem = "bad" ->
            /\ readPos' = readPos + 1
            /\ SetState("FramedError",
                        DispatcherError("Decoder", "decode", readPos + 1))
            /\ ReadReturn(TRUE)
            /\ UNCHANGED <<calls, running>>
      [] NextItem = "eof" ->
            /\ readPos' = readPos + 1
            /\ SetState("Stopping", NoErr)
            /\ ReadReturn(TRUE)
            /\ UNCHANGED <<calls, running>>
      [] NextItem = "pending" ->
            /\ ReadReturn(FALSE)
            /\ KeepState
            /\ UNCHANGED <<readPos, calls, running>>

\* Mutant: a ready answer is remembered and not asked for again.
ReadStepCachedReady(r) ==
    /\ readySeen' = readySeen \cup {r}
    /\ firstReady' = IF firstReady = "none" THEN r ELSE firstReady
    /\ lastReady' = r
    /\ IF ReadyAdmits(r) \/ lastReady = "ok"
          THEN ReadItem
          ELSE IF r = "pending"
          THEN /\ ReadReturn(FALSE)
               /\ KeepState
               /\ UNCHANGED <<readPos, calls, running>>
          ELSE /\ SetState("Error", DispatcherError("Service", "ready", 0))
               /\ ReadReturn(TRUE)
               /\ UNCHANGED <<readPos, calls, running>>

\* One iteration of the loop of poll_read, poll_ready returning r.
ReadStep(r) ==
    /\ readySeen' = readySeen \cup {r}
    /\ firstReady' = IF firstReady = "none" THEN r ELSE firstReady
    /\ lastReady' = r
    /\ IF ReadyAdmits(r)
          THEN ReadItem
          ELSE IF r = "pending"
          THEN /\ ReadReturn(FALSE)
               /\ KeepState
               /\ UNCHANGED <<readPos, calls, running>>
          ELSE /\ SetState("Error", DispatcherError("Service", "ready", 0))
               /\ ReadReturn(TRUE)
               /\ UNCHANGED <<readPos, calls, running>>

ReadIter ==
    /\ pc = "read"
    /\ \E r \in ReadyOutcomes : ReadStep(r)
    /\ UNCHANGED <<input, arrived, rx, wbuf, out, result>>
    /\ UNCHANGED <<completed, pulled, written, failures>>

----------------------------------------------------------------------------
\* FramedDispatcher::poll_write

\* Mutant: poll yields after poll_write even when it reported progress.
WriteReturnAlwaysPending(progress) ==
    /\ pc' = "idle"
    /\ trail' = Append(trail, IF progress THEN "write:T" ELSE "write:F")

\* poll_write returns: true re-enters the loop of poll, false makes poll
\* return Poll::Pending.
WriteReturn(progress) ==
    /\ pc' = IF progress THEN "top" ELSE "idle"
    /\ trail' = Append(trail, IF progress THEN "write:T" ELSE "write:F")

\* Mutant: a service error taken from the channel is dropped and the loop
\* goes on with the next message.
WriteMessageSkipsErr(m, enc) ==
    /\ rx' = ChannelRest(rx)
    /\ pulled' = pulled + 1
    /\ CASE m.tag = "Item" /\ enc ->
              /\ wbuf' = Append(wbuf, m.id)
              /\ written' = Append(written, m.id)
              /\ pc' = "write"
              /\ KeepState
              /\ UNCHANGED <<trail, failures>>
         [] m.tag = "Item" /\ ~enc ->
              /\ SetState("FramedError",
                          DispatcherError("Encoder", "encode", m.id))
              /\ failures' = Append(failures,
                                    DispatcherError("Encoder", "encode", m.id))
              /\ WriteReturn(TRUE)
              /\ UNCHANGED <<wbuf, written>>
         [] m.tag = "Close" ->
              /\ SetState("FlushAndStop", NoErr)
              /\ WriteReturn(TRUE)
              /\ UNCHANGED <<wbuf, written, failures>>
         [] m.tag = "Err" ->
              /\ pc' = "write"
              /\ KeepState
              /\ UNCHANGED <<wbuf, written, trail, failures>>

\* The arms of rx.poll_next for message m, framed.write succeeding iff enc.
WriteMessage(m, enc) ==
    /\ rx' = ChannelRest(rx)
    /\ pulled' = pulled + 1
    /\ CASE m.tag = "Item" /\ enc ->
              /\ wbuf' = Append(wbuf, m.id)
              /\ written' = Append(written, m.id)
              /\ pc' = "write"
              /\ KeepState
              /\ UNCHANGED <<trail, failures>>
         [] m.tag = "Item" /\ ~enc ->
              /\ SetState("FramedError",
                          DispatcherError("Encoder", "encode", m.id))
              /\ failures' = Append(failures,
                                    DispatcherError("Encoder", "encode", m.id))
              /\ WriteReturn(TRUE)
              /\ UNCHANGED <<wbuf, written>>
         [] m.tag = "Close" ->
              /\ SetState("FlushAndStop", NoErr)
              /\ WriteReturn(TRUE)
              /\ UNCHANGED <<wbuf, written, failures>>
         [] m.tag = "Err" ->
              /\ SetState("Error", DispatcherError("Service", "task", m.id))
              /\ WriteReturn(TRUE)
              /\ UNCHANGED <<wbuf, written, failures>>

\* One iteration of `while !this.framed.is_write_buf_full()`.
WriteStep(enc) ==
    IF ~IsWriteBufFull(wbuf) /\ rx # <<>>
    THEN WriteMessage(ChannelHead(rx), enc)
    ELSE /\ pc' = "flush"
         /\ KeepState
         /\ UNCHANGED <<rx, pulled, wbuf, written, trail, failures>>

WritePull ==
    /\ pc = "write"
    /\ \E enc \in BOOLEAN : WriteStep(enc)
    /\ UNCHANGED <<input, arrived, readPos, running, out, result>>
    /\ UNCHANGED <<calls, completed, readySeen, firstReady, lastReady>>

\* Mutant: a failed flush is retried on the next poll instead of ending the run.
FlushStepRetries(f) ==
    IF ~IsWriteBufEmpty(wbuf)
    THEN /\ wbuf' = FlushBuf(wbuf, f)
         /\ out' = FlushOut(out, wbuf, f)
         /\ KeepState
         /\ CASE f.res = "pending" ->
                   /\ WriteReturn(FALSE)
                   /\ UNCHANGED failures
              [] f.res = "ok" ->
                   /\ pc' = "write"
                   /\ UNCHANGED <<trail, failures>>
              [] f.res = "err" ->
                   /\ failures' = Append(failures,
                                         DispatcherError("Encoder", "flush", 0))
                   /\ WriteReturn(FALSE)
    ELSE /\ WriteReturn(FALSE)
         /\ KeepState
         /\ UNCHANGED <<wbuf, out, failures>>

\* `if !this.framed.is_write_buf_empty() { flush } else { break }`.
FlushStep(f) ==
    IF ~IsWriteBufEmpty(wbuf)
    THEN /\ wbuf' = FlushBuf(wbuf, f)
         /\ out' = FlushOut(out, wbuf, f)
         /\ CASE f.res = "pending" ->
                   /\ WriteReturn(FALSE)
                   /\ KeepState
                   /\ UNCHANGED failures
              [] f.res = "ok" ->
                   /\ pc' = "write"
                   /\ KeepState
                   /\ UNCHANGED <<trail, failures>>
              [] f.res = "err" ->
                   /\ state' = "FramedError"
                   /\ err' = DispatcherError("Encoder", "flush", 0)
                   /\ exitEvent' = [state |-> "FramedError",
                                    err |-> DispatcherError("Encoder", "flush", 0)]
                   /\ wbufAtExit' = FlushBuf(wbuf, f)
                   /\ finalFlush' = "none"
                   /\ failures' = Append(failures,
                                         DispatcherError("Encoder", "flush", 0))
                   /\ WriteReturn(TRUE)
    ELSE /\ WriteReturn(FALSE)
         /\ KeepState
         /\ UNCHANGED <<wbuf, out, failures>>

WriteFlush ==
    /\ pc = "flush"
    /\ \E f \in FlushOutcomes(wbuf) : FlushStep(f)
    /\ UNCHANGED <<input, arrived, readPos, running, rx, result>>
    /\ UNCHANGED <<calls, completed, pulled, written, readySeen, firstReady,
                   lastReady>>

----------------------------------------------------------------------------

Next ==
    \/ Arrive
    \/ TaskComplete
    \/ PollEnter
    \/ PollTop
    \/ ReadIter
    \/ WritePull
    \/ WriteFlush

Spec == Init /\ [][Next]_vars

\* A caller that polls the future again after Poll::Ready(Err(_)): nothing
\* in poll keeps it from running the match once more, any number of
\* times. The histories of the run that ended are started afresh for the
\* run that follows.
RePoll ==
    /\ pc = "done"
    /\ result.tag = "Err"
    /\ pc' = "top"
    /\ trail' = <<>>
    /\ readySeen' = {}
    /\ firstReady' = "none"
    /\ lastReady' = "none"
    /\ exitEvent' = NoExit
    /\ finalFlush' = "none"
    /\ wbufAtExit' = <<>>
    /\ failures' = <<>>
    /\ UNCHANGED <<input, arrived, readPos, state, err, running, rx, wbuf,
                   out, result>>
    /\ UNCHANGED <<calls, completed, pulled, written>>

\* A request task finishing while the dispatcher, resolved or not, is still
\* alive: the receiver exists, so the message is queued.
TaskCompleteKept ==
    /\ pc \in {"idle", "done"}
    /\ \E id \in running : \E ok \in BOOLEAN :
        /\ running' = running \ {id}
        /\ rx' = ChannelSend(rx, TaskMessage(id, ok))
        /\ completed' = Append(completed, TaskMessage(id, ok))
    /\ UNCHANGED <<input, arrived, readPos, state, err, wbuf, out, pc,
                   result>>
    /\ UNCHANGED <<calls, pulled, written, readySeen, firstReady, exitEvent,
                   finalFlush, wbufAtExit, trail, lastReady, failures>>

NextRepoll ==
    \/ Arrive
    \/ TaskCompleteKept
    \/ PollEnter
    \/ PollTop
    \/ ReadIter
    \/ WritePull
    \/ WriteFlush
    \/ RePoll

\* The dispatcher with a caller that may poll it again after it resolved.
SpecRepoll == Init /\ [][NextRepoll]_vars

TypeOK ==
    /\ input \in Streams
    /\ arrived \in 0..Len(input)
    /\ readPos \in 0..arrived
    /\ state \in {"Processing", "Error", "FramedError", "FlushAndStop", "Stopping"}
    /\ running \subseteq 1..MaxItems
    /\ pc \in {"idle", "top", "read", "write", "flush", "done"}
    /\ result.tag \in {"None", "Ok", "Err", "Panic"}
    /\ Len(wbuf) <= WriteBufFull

----------------------------------------------------------------------------
\* Claims

Count(s, x) == Cardinality({k \in 1..Len(s) : s[k] = x})

AllResponses == \A k \in 1..Len(completed) : completed[k].tag = "Item"

\* C1 (as claimed): when every frame decodes and the service answers every
\* admitted request with a response, each response has been flushed to the
\* outbound side exactly once by the time the dispatcher resolves, also
\* when the transport ended with tasks running or responses still queued.
C1_EveryResponseFlushed ==
    (/\ pc = "done"
     /\ result.tag = "Ok"
     /\ "bad" \notin Range(input)
     /\ "err" \notin readySeen
     /\ running = {}
     /\ AllResponses)
    => \A id \in Range(calls) : Count(out, id) = 1

\* C2 (as claimed): after a decode failure on item N no later item is
\* handed to call, and the Decoder error is returned only after a flush of
\* the responses in the write buffer has been attempted.
C2_FlushBeforeDecoderError ==
    (result.tag = "Err" /\ result.err.kind = "Decoder")
    => /\ \A id \in Range(calls) : id < result.err.id
       /\ wbufAtExit # <<>> => finalFlush # "none"

\* C2 (amended): after a decode failure on item N no later item is read or
\* handed to call, and the dispatcher resolves with Decoder(N) in the same
\* poll without any flush: the write buffer is left as it was.
C2_DecoderErrorNoFlush ==
    (exitEvent.err.kind = "Decoder")
    => /\ \A id \in Range(calls) : id < exitEvent.err.id
       /\ readPos = exitEvent.err.id
       /\ input[exitEvent.err.id] = "bad"
       /\ finalFlush = "none"
       /\ wbuf = wbufAtExit
       /\ pc \in {"top", "done"}
       /\ pc = "done" => result = [tag |-> "Err", err |-> exitEvent.err]

C2_Witness ==
    /\ pc = "done"
    /\ result.tag = "Err"
    /\ result.err.kind = "Decoder"
    /\ result.err.id = 2
    /\ calls = <<1>>
    /\ wbuf = <<1>>
    /\ Len(input) > 2

\* C4: as long as every readiness check has returned pending, nothing has
\* been decoded, no call has been issued, the state is Processing and no
\* poll has resolved.
C4_NeverReadySuspends ==
    (readySeen \subseteq {"pending"})
    => /\ readPos = 0
       /\ calls = <<>>
       /\ running = {}
       /\ state = "Processing"
       /\ result = NoResult
       /\ pc # "done"

C4_Witness ==
    /\ readySeen = {"pending"}
    /\ arrived = Len(input)
    /\ arrived >= 2
    /\ pc = "idle"
    /\ trail = <<"proc", "read:F", "write:F">>

\* C5: the run resolves at most once; the result is Ok(()) exactly when
\* state left Processing for Stopping or FlushAndStop, and otherwise it is
\* Err with the error of the one event that moved state out of Processing,
\* also when the final flush failed afterwards.
C5_SingleResult ==
    /\ [](/\ (pc = "done") <=> (result.tag # "None")
          /\ result.tag \in {"None", "Ok", "Err"}
          /\ (result.tag = "Ok")
                <=> (pc = "done" /\ exitEvent.state \in {"Stopping", "FlushAndStop"})
          /\ (result.tag = "Err")
                => /\ exitEvent.state \in {"Error", "FramedError"}
                   /\ result.err = exitEvent.err
                   /\ result.err.kind \in {"Service", "Encoder", "Decoder"})
    /\ [][/\ (pc = "done") => (pc' = "done" /\ result' = result)
          /\ (exitEvent # NoExit) => (exitEvent' = exitEvent)]_vars

C5_Witness ==
    /\ pc = "done"
    /\ result.tag = "Err"
    /\ result.err.kind = "Service"
    /\ finalFlush = "err"

\* C6: when the first readiness check failed, nothing is ever decoded or
\* called, the poll goes straight to resolution and the result is
\* Err(Service(e)) with that error.
C6_FirstReadyError ==
    (firstReady = "err")
    => /\ readPos = 0
       /\ calls = <<>>
       /\ running = {}
       /\ pc \in {"top", "done"}
       /\ exitEvent = [state |-> "Error",
                       err |-> DispatcherError("Service", "ready", 0)]
       /\ pc = "done" => result = [tag |-> "Err",
                                   err |-> DispatcherError("Service", "ready", 0)]

C6_Witness ==
    /\ firstReady = "err"
    /\ pc = "done"
    /\ result.tag = "Err"
    /\ arrived >= 1

OneBadItem == input \in {<<"bad">>, <<"bad", "eof">>}

\* C7: the transport yields a single item that fails to decode and no
\* readiness check fails: call is never invoked, the poll that reads the
\* item resolves, and the result is Err(Decoder(e)) for that item.
C7_OneBadItem ==
    (OneBadItem /\ "err" \notin readySeen)
    => /\ calls = <<>>
       /\ running = {}
       /\ readPos >= 1 => pc \in {"top", "done"}
       /\ pc = "done" => result = [tag |-> "Err",
                                   err |-> DispatcherError("Decoder", "decode", 1)]

C7_Witness ==
    /\ OneBadItem
    /\ "err" \notin readySeen
    /\ pc = "done"
    /\ result.err.kind = "Decoder"

\* C8: responses enter the write buffer in the order in which the tasks
\* pushed them onto the channel (which is FIFO), whatever the order of
\* admission.
C8_CompletionOrder ==
    /\ IsPrefix(written, Ids(completed))
    /\ rx = SubSeq(completed, pulled + 1, Len(completed))
    /\ Len(written) \in {pulled, pulled - 1}
    /\ \A k \in 1..Len(written) : completed[k].tag = "Item"

C8_Witness ==
    /\ Len(calls) >= 2
    /\ calls[1] = 1
    /\ calls[2] = 2
    /\ written = <<2, 1>>
    /\ state = "Processing"

\* C9: once state has left Processing, until the run resolves no step
\* checks readiness, decodes, calls the service or pulls from the channel,
\* and state stays what it is.
C9_TerminalAbsorbing ==
    [][(state # "Processing" /\ pc # "done")
       => /\ pc \in {"top", "idle"}
          /\ readySeen' = readySeen
          /\ firstReady' = firstReady
          /\ readPos' = readPos
          /\ calls' = calls
          /\ running' \subseteq running
          /\ pulled' = pulled
          /\ rx' = rx \/ Len(rx') > Len(rx)
          /\ written' = written
          /\ state' = state \/ pc' = "done"]_vars

C9_Witness ==
    /\ state = "Error"
    /\ pc = "idle"
    /\ rx # <<>>
    /\ readPos < arrived

Last(s) == s[Len(s)]

\* C10 (as claimed): every iteration of the poll loop that starts in
\* Processing runs the Read stage and then the Write stage, and after a
\* stage reported progress the pair is run again.
C10_ReadThenWriteAlways ==
    /\ (Len(trail) >= 3 /\ trail[1] = "proc")
          => trail[3] \in {"write:T", "write:F"}
    /\ \A k \in 1..(Len(trail) - 1) :
          trail[k] \in {"read:T", "write:T"} => trail[k + 1] = "proc"

\* C10 (amended): an iteration in Processing runs the Read stage, and the
\* Write stage only when Read reported no progress; after progress the loop
\* iterates again without yielding and takes a terminal branch (the pair is
\* not run again); the Processing branch returns Pending only after both
\* stages ran and neither reported progress.
C10_ReadThenWriteUnlessProgress ==
    /\ trail \in {<<>>, <<"term">>, <<"proc">>,
                  <<"proc", "read:T">>, <<"proc", "read:T", "term">>,
                  <<"proc", "read:F">>,
                  <<"proc", "read:F", "write:F">>,
                  <<"proc", "read:F", "write:T">>,
                  <<"proc", "read:F", "write:T", "term">>}
    /\ (trail # <<>> /\ Last(trail) \in {"read:T", "write:T"})
          => (pc = "top" /\ state # "Processing")
    /\ (trail # <<>> /\ Last(trail) = "read:F")
          => (pc \in {"write", "flush"} /\ state = "Processing")
    /\ (trail # <<>> /\ Last(trail) = "write:F")
          => (pc = "idle" /\ state = "Processing")
    /\ (pc = "idle" /\ trail # <<>> /\ Last(trail) # "term")
          => trail = <<"proc", "read:F", "write:F">>

C10_Witness ==
    /\ pc = "done"
    /\ trail = <<"proc", "read:F", "write:T", "term">>

\* C11: a poll in state Error(e) with a non-empty write buffer attempts a
\* flush; a pending flush ends the poll with Pending and the same Error(e);
\* an empty buffer or a completed flush, successful or failed, resolves
\* Err(e) with the stored error.
C11_ErrorFinalFlush ==
    /\ [](state = "Error"
            => /\ pc \in {"top", "idle"}
               /\ err = exitEvent.err
               /\ err.kind = "Service"
               /\ result = NoResult)
    /\ [][(state = "Error" /\ pc = "top" /\ pc' # pc)
          => IF wbuf # <<>>
             THEN /\ finalFlush' \in {"ok", "pending", "err"}
                  /\ finalFlush' = "pending"
                        => /\ pc' = "idle"
                           /\ state' = "Error"
                           /\ err' = err
                           /\ result' = NoResult
                  /\ finalFlush' # "pending"
                        => /\ pc' = "done"
                           /\ result' = [tag |-> "Err", err |-> err]
                  /\ finalFlush' = "ok" => (wbuf' = <<>> /\ out' = out \o wbuf)
             ELSE /\ pc' = "done"
                  /\ result' = [tag |-> "Err", err |-> err]
                  /\ finalFlush' = finalFlush
                  /\ out' = out]_vars

C11_Witness ==
    /\ state = "Error"
    /\ pc = "idle"
    /\ finalFlush = "pending"
    /\ wbuf # <<>>
    /\ err.src = "task"

\* C12: FramedError(e) is entered on a decode, encode or write-stage flush
\* failure and resolves Err(e) in the same poll with no flush: what the
\* write buffer held at that moment is never flushed.
C12_FramedErrorNoFlush ==
    /\ (exitEvent.state = "FramedError")
       <=> (exitEvent.err.src \in {"decode", "encode", "flush"})
    /\ (exitEvent.state = "FramedError")
       => /\ exitEvent.err.kind \in {"Decoder", "Encoder"}
          /\ pc \in {"top", "done"}
          /\ finalFlush = "none"
          /\ wbuf = wbufAtExit
          /\ pc = "top" => (state = "FramedError" /\ err = exitEvent.err)
          /\ pc = "done" => result = [tag |-> "Err", err |-> exitEvent.err]

C12_Witness ==
    /\ pc = "done"
    /\ result.tag = "Err"
    /\ result.err.src = "encode"
    /\ wbuf # <<>>
    /\ out = <<>>

\* C13: an outcome is taken from the channel only while the write buffer is
\* not full; while it is full the channel is not read and the buffer only
\* shrinks, so the buffer never holds more responses than its threshold
\* (in particular never more than one response beyond it), however many
\* tasks have completed.
C13_Backpressure ==
    /\ [](Len(wbuf) <= WriteBufFull)
    /\ [][/\ (pulled' # pulled) => (Len(wbuf) < WriteBufFull /\ pulled' = pulled + 1)
          /\ (Len(wbuf) >= WriteBufFull)
                => /\ pulled' = pulled
                   /\ Len(wbuf') <= Len(wbuf)
                   /\ rx' = rx \/ Len(rx') = Len(rx) + 1]_vars

C13_Witness ==
    /\ Len(wbuf) = WriteBufFull
    /\ rx # <<>>
    /\ state = "Processing"
    /\ pc = "idle"
    /\ trail = <<"proc", "read:F", "write:F">>

\* C14: an encode failure, or a flush failure in the write stage, happens
\* at most once in a run: it puts FramedError(Encoder(e)) in the state, the
\* write stage returns true, nothing is pulled, encoded or flushed
\* afterwards, the failed response is not encoded again, and the run
\* resolves Err(Encoder(e)).
C14_EncoderFailureFinal ==
    /\ [](failures # <<>>
            => /\ Len(failures) = 1
               /\ failures[1].kind = "Encoder"
               /\ exitEvent = [state |-> "FramedError", err |-> failures[1]]
               /\ pc \in {"top", "done"}
               /\ pc = "top" => /\ state = "FramedError"
                                /\ err = failures[1]
                                /\ Last(trail) = "write:T"
               /\ pc = "done" => result = [tag |-> "Err", err |-> failures[1]]
               /\ failures[1].src = "encode"
                     => /\ failures[1].id \notin Range(written)
                        /\ failures[1].id \notin Range(Ids(rx))
                        /\ completed[pulled].id = failures[1].id)
    /\ [][failures # <<>>
          => /\ written' = written
             /\ pulled' = pulled
             /\ wbuf' = wbuf
             /\ out' = out
             /\ failures' = failures]_vars

C14_Witness ==
    /\ pc = "done"
    /\ failures = <<DispatcherError("Encoder", "flush", 0)>>
    /\ result.tag = "Err"
    /\ rx # <<>>
    /\ wbuf # <<>>

ErrPulled == {k \in 1..pulled : completed[k].tag = "Err"}

\* C15: a service error taken from the channel is the last message ever
\* taken: the state becomes Error(Service(e)), nothing queued behind it is
\* encoded, and the run resolves Err(Service(e)) after the final flush of
\* the responses buffered before it has been attempted and has completed
\* or emptied the buffer.
C15_TaskErrorFinal ==
    (ErrPulled # {})
    => /\ ErrPulled = {pulled}
       /\ exitEvent = [state |-> "Error",
                       err |-> DispatcherError("Service", "task",
                                               completed[pulled].id)]
       /\ written = Ids(SubSeq(completed, 1, pulled - 1))
       /\ pc \in {"top", "idle", "done"}
       /\ pc # "done" => (state = "Error" /\ err = exitEvent.err)
       /\ pc = "idle" => finalFlush = "pending"
       /\ pc = "done"
             => /\ result = [tag |-> "Err", err |-> exitEvent.err]
                /\ wbufAtExit # <<>> => finalFlush # "none"
                /\ finalFlush \in {"ok", "pending"} => wbuf = <<>>

C15_Witness ==
    /\ pc = "done"
    /\ result.tag = "Err"
    /\ result.err.src = "task"
    /\ rx # <<>>
    /\ rx[1].tag = "Item"
    /\ finalFlush = "ok"
    /\ out # <<>>

\* C16: an item leaves the transport only in a step whose readiness check
\* returned ready; every call is made by such a step, one call per check,
\* for the item just read; calls are made in the transport's order; and
\* the read loop goes on at once, the spawned task still running.
C16_AdmissionControl ==
    /\ [](/\ \A k \in 1..(Len(calls) - 1) : calls[k] < calls[k + 1]
          /\ Range(calls) = {k \in 1..readPos : input[k] = "ok"})
    /\ [][/\ (readPos' # readPos)
                => /\ pc = "read"
                   /\ lastReady' = "ok"
                   /\ readPos' = readPos + 1
          /\ (calls' # calls)
                => /\ lastReady' = "ok"
                   /\ readPos' = readPos + 1
                   /\ input[readPos'] = "ok"
                   /\ calls' = Append(calls, readPos')
                   /\ running' = running \cup {readPos'}
                   /\ pc' = "read"
          /\ (pc = "read" /\ pc' # pc /\ lastReady' # "ok")
                => (readPos' = readPos /\ calls' = calls)]_vars

C16_Witness ==
    /\ calls = <<1, 2>>
    /\ running = {1, 2}
    /\ pc = "read"
    /\ lastReady = "ok"
    /\ "pending" \in readySeen

\* C17 (as claimed): once the run has resolved with an error, a further
\* poll does not resume read/write processing.
C17_RepollIsFatal ==
    (result.tag = "Err") => pc \notin {"read", "write", "flush"}

\* C17 (amended): the poll that resolves with an error moves the payload
\* out of Error/FramedError and leaves Processing in the slot; take_error
\* runs only on Error and take_framed_error only on FramedError, so neither
\* panics, also when the future is polled again; a poll after an error
\* resolution finds Processing and resumes with the read stage.
C17_TakeOnceThenResume ==
    /\ [](/\ result.tag # "Panic"
          /\ (pc = "done" /\ result.tag = "Err")
                => (state = "Processing" /\ err = NoErr)
          /\ (state \in {"Error", "FramedError"}) <=> (err # NoErr))
    /\ [][/\ (pc = "top" /\ pc' = "done" /\ result'.tag = "Err")
                => /\ state \in {"Error", "FramedError"}
                   /\ result'.err = err
                   /\ (state = "Error") <=> (err.kind = "Service")
                   /\ state' = "Processing"
                   /\ err' = NoErr
          /\ (pc = "done" /\ result.tag = "Err" /\ pc' # pc)
                => (pc' = "top" /\ state' = "Processing")
          /\ (pc = "top" /\ state = "Processing" /\ pc' # pc)
                => pc' = "read"]_vars

C17_Witness ==
    /\ result.tag = "Err"
    /\ result.err.kind = "Decoder"
    /\ pc = "write"
    /\ state = "Processing"
    /\ Len(calls) >= 1
    /\ calls[Len(calls)] > result.err.id

\* C18: no task ever sends Close, the state is never FlushAndStop, and a
\* run that resolved Ok(()) left Processing through Stopping, on the clean
\* end of the transport's stream.
C18_FlushAndStopUnreachable ==
    /\ state # "FlushAndStop"
    /\ exitEvent.state # "FlushAndStop"
    /\ \A k \in 1..Len(completed) : completed[k].tag \in {"Item", "Err"}
    /\ \A k \in 1..Len(rx) : rx[k].tag \in {"Item", "Err"}
    /\ (result.tag = "Ok")
          => /\ state = "Stopping"
             /\ exitEvent.state = "Stopping"
             /\ readPos = Len(input)
             /\ input[readPos] = "eof"

C18_Witness ==
    /\ result.tag = "Ok"
    /\ pc = "done"
    /\ Len(completed) >= 2
    /\ out # <<>>

\* C19: a stage of poll_read / poll_write hands control back to the loop
\* of poll (reports progress) exactly in the step that moves the state from
\* Processing to another state; a step that admits an item, encodes a
\* response or writes buffered responses out leaves the state Processing
\* and reports none. Hence a poll runs the Processing branch at most once
\* and the match at most twice.
C19_ProgressIffStateLeft ==
    /\ [](/\ Count(trail, "proc") <= 1
          /\ Count(trail, "proc") + Count(trail, "term") <= 2
          /\ Count(trail, "read:T") + Count(trail, "write:T") <= 1
          /\ (pc \in {"read", "write", "flush"}) => state = "Processing")
    /\ [][(pc \in {"read", "write", "flush"})
          => /\ (pc' = "top")
                   <=> (state = "Processing" /\ state' # "Processing")
             /\ (pc' = "top")
                   <=> (/\ Len(trail') = Len(trail) + 1
                        /\ Last(trail') \in {"read:T", "write:T"})
             /\ (calls' # calls \/ written' # written \/ out' # out)
                   => \/ /\ state' = "Processing"
                         /\ pc' \in {"read", "write", "idle"}
                         /\ trail' \in {trail, Append(trail, "write:F")}
                      \/ /\ out' # out
                         /\ calls' = calls
                         /\ written' = written
                         /\ state' = "FramedError"]_vars

C19_Witness ==
    /\ pc = "idle"
    /\ state = "Processing"
    /\ trail = <<"proc", "read:F", "write:F">>
    /\ calls = <<1, 2>>
    /\ Len(written) = 2
    /\ Len(out) = 1
    /\ Len(wbuf) = 1
    /\ readySeen = {"ok"}

\* C20: every response encoded into the write buffer belongs to a request
\* admitted before and was sent by its task as a response; no request has
\* its response encoded twice and no task sends twice; responses encoded
\* plus outcomes in the channel plus tasks running never exceed the
\* requests admitted.
C20_ResponseConservation ==
    /\ Range(written) \subseteq Range(calls)
    /\ Cardinality(Range(written)) = Len(written)
    /\ Cardinality(Range(Ids(completed))) = Len(completed)
    /\ Range(Ids(completed)) \subseteq Range(calls)
    /\ Range(Ids(completed)) \cap running = {}
    /\ running \subseteq Range(calls)
    /\ pulled <= Len(completed)
    /\ rx = SubSeq(completed, pulled + 1, Len(completed))
    /\ \A k \in 1..Len(written) :
          \E j \in 1..pulled : completed[j] = InnerMessage("Item", written[k])
    /\ written = out \o wbuf
    /\ Len(written) + Len(rx) + Cardinality(running) <= Len(calls)

C20_Witness ==
    /\ Len(calls) = 3
    /\ Len(written) = 1
    /\ Len(rx) = 1
    /\ Cardinality(running) = 1
    /\ wbuf # <<>>

====
